---- MODULE Spec2Model ----
(***************************************************************************)
(* A model of withDefer (src/src/index.ts): a work function receives a     *)
(* registration handle `defer`, the registered callbacks are run in LIFO   *)
(* order after the work function settles, and every failure is collected   *)
(* into one AggregateError.                                                *)
(*                                                                         *)
(* JavaScript runs one job at a time: a synchronous stretch of code is     *)
(* never interleaved with anything else. The variable `thread` names the   *)
(* invocation whose synchronous stretch is running (0: the event loop is   *)
(* free, any job may run next). One action is one stretch of code between  *)
(* two places where the code can be suspended or interleaved.              *)
(***************************************************************************)
EXTENDS Integers, Sequences, FiniteSets, TLC

\* The invocations of withDefer that are modelled: two, so that they can be
\* nested (1 awaits 2 inside its work function) or siblings.
Invs == {1, 2}

\* Bound: the number of successful registrations over all invocations.
MaxDefer == 3

\* Bound: the number of those made after the work function has settled that
\* are pending at one time.
MaxLate == 1

\* The values a caller can pass to withDefer.
FnArgs == {"syncFn", "asyncFn", "string"}

\* The values a caller can pass to defer: four callbacks (synchronous or
\* asynchronous, succeeding or failing), a string, and a pending Promise
\* (what calling an async function returns).
Callbacks == {"syncOk", "syncFail", "asyncOk", "asyncFail"}
DeferArgs == Callbacks \cup {"string", "promise"}

\* The values a work function returns.
Values == {"success"}

\* typeof x
TypeOf(x) ==
    IF x = "string" THEN "string"
    ELSE IF x = "promise" THEN "object"
    ELSE "function"

\* x instanceof Promise
InstanceOfPromise(x) == x = "promise"

\* Whether calling the callable x runs to its end synchronously.
IsSync(x) == x \in {"syncFn", "syncOk", "syncFail"}

NoError == [kind |-> "none", msg |-> "", errors |-> << >>]
Error(m) == [kind |-> "Error", msg |-> m, errors |-> << >>]
TypeError(m) == [kind |-> "TypeError", msg |-> m, errors |-> << >>]
AggregateError(errs, m) == [kind |-> "AggregateError", msg |-> m, errors |-> errs]

\* What running the callback x to its end produces: the error it throws or
\* rejects with (NoError: it returns or resolves), and the value it returns
\* or resolves to; the callbacks modelled produce different values.
CallbackError(x) ==
    IF x \in {"syncFail", "asyncFail"} THEN Error(x) ELSE NoError
CallbackValue(x) ==
    IF x = "syncOk" THEN "cleaned"
    ELSE IF x = "asyncOk" THEN "closed"
    ELSE "undefined"

\* The error the work function itself throws.
MainError == Error("main")

Pending == [st |-> "pending", val |-> "null", err |-> NoError]
Resolved(v) == [st |-> "resolved", val |-> v, err |-> NoError]
Rejected(e) == [st |-> "rejected", val |-> "null", err |-> e]

NotStarted == [how |-> "none", val |-> "null", err |-> NoError]
Running == [how |-> "running", val |-> "null", err |-> NoError]

NoCall == [arg |-> "none", threw |-> NoError, delivery |-> "none", by |-> "none"]

VARIABLES
    pc,         \* where each invocation is: "idle", "fn" (line 63), "loop"
                \* (line 69), "cb" (line 72), "done"
    fnArg,      \* the argument withDefer was called with
    delivery,   \* how the call of withDefer ended: "promise" or "throw"
    outcome,    \* the promise withDefer returned
    allocated,  \* the invocations that created `deferred` and `errors`
    work,       \* the work function: how it ended, its value or its error
    deferred,   \* the array `deferred` (line 42)
    errors,     \* the array `errors` (line 59)
    result,     \* the local `result` (line 60)
    cur,        \* the local `callback` (line 70), by registration number
    running,    \* the callbacks started and not yet settled
    settled,    \* the callbacks that settled, in that order, with their error
    registered, \* history: the successful registrations, in order
    executed,   \* history: the registration numbers of the callbacks started
    lastDefer,  \* history: the last call of the handle that defer refused
    nested,     \* invocation 2 was started and is awaited by 1's work function
    thread      \* the invocation whose synchronous stretch is running, or 0

vars == << pc, fnArg, delivery, outcome, allocated, work, deferred, errors,
           result, cur, running, settled, registered, executed, lastDefer,
           nested, thread >>

Init ==
    /\ pc = [i \in Invs |-> "idle"]
    /\ fnArg = [i \in Invs |-> "none"]
    /\ delivery = [i \in Invs |-> "none"]
    /\ outcome = [i \in Invs |-> Pending]
    /\ allocated = {}
    /\ work = [i \in Invs |-> NotStarted]
    /\ deferred = [i \in Invs |-> << >>]
    /\ errors = [i \in Invs |-> << >>]
    /\ result = [i \in Invs |-> "null"]
    /\ cur = [i \in Invs |-> 0]
    /\ running = [i \in Invs |-> {}]
    /\ settled = [i \in Invs |-> << >>]
    /\ registered = [i \in Invs |-> << >>]
    /\ executed = [i \in Invs |-> << >>]
    /\ lastDefer = [i \in Invs |-> NoCall]
    /\ nested = FALSE
    /\ thread = 0


(***************************************************************************)
(* The code of withDefer, as operators.                                    *)
(***************************************************************************)

\* `export async function withDefer` (line 35); `defer` is a plain arrow
\* function (line 44).
WithDeferIsAsync == TRUE
\* Variant: defer declared async.
DeferDeclaredAsync == TRUE
DeferIsAsync == FALSE

\* How an exception thrown in the body of a function reaches its caller: an
\* async function returns a promise that is rejected with it, any other
\* function throws it out of the call.
ThrowDelivery(isAsync) == IF isAsync THEN "promise" ELSE "throw"

\* Variant: withDefer without its check of lines 38-40.
WithDeferUnchecked(fn) == NoError

\* Lines 38-40: the error withDefer raises for its argument, or NoError.
WithDeferCheck(fn) ==
    IF TypeOf(fn) # "function"
    THEN TypeError("withDefer() expects a function")
    ELSE NoError

\* Variant: defer without its typeof check of lines 45-47.
DeferChecksPromiseOnly(callback) ==
    IF InstanceOfPromise(callback)
    THEN TypeError("defer() expects a function, not a Promise. Use defer(() => yourAsyncFunction()) instead")
    ELSE NoError

\* Variant: defer refuses every argument.
DeferRefusesAll(callback) == TypeError("defer() expects a function")

\* Variant: defer with the instanceof check before the typeof check.
DeferPromiseFirst(callback) ==
    IF InstanceOfPromise(callback)
    THEN TypeError("defer() expects a function, not a Promise. Use defer(() => yourAsyncFunction()) instead")
    ELSE IF TypeOf(callback) # "function"
    THEN TypeError("defer() expects a function")
    ELSE NoError

\* Lines 45-54: the error defer raises for its argument, or NoError.
DeferCheck(callback) ==
    IF TypeOf(callback) # "function"
    THEN TypeError("defer() expects a function")
    ELSE IF InstanceOfPromise(callback)
    THEN TypeError("defer() expects a function, not a Promise. Use defer(() => yourAsyncFunction()) instead")
    ELSE NoError

\* Variant: `fn(defer)` without await.
FnNotAwaited(i) == TRUE

\* Line 63: `await fn(defer)` resumes once the work function has settled.
FnSettled(i) == work[i].how \notin {"none", "running"}

\* Lines 63-66: the work function's value is assigned to `result`, its
\* failure is pushed on `errors`.
WorkFailed(w) == w.how \in {"throw", "reject"}
ResultAfterFn(res, w) == IF WorkFailed(w) THEN res ELSE w.val
\* Variant: the failure of the work function is not recorded.
SwallowFnError(errs, w) == errs
ErrorsAfterFn(errs, w) == IF WorkFailed(w) THEN Append(errs, w.err) ELSE errs

\* Variants: the loop stops once an error is recorded; the loop leaves the
\* last callback in the array.
LoopStopsAtError(i) == Len(deferred[i]) > 0 /\ Len(errors[i]) = 0
LoopLeavesLast(i) == Len(deferred[i]) > 1

\* Line 69: the loop condition.
LoopRuns(i) == Len(deferred[i]) > 0

\* Variant: `deferred.shift()`, the first element.
PopFirst(s) == 1

\* Line 70: `deferred.pop()` takes the last element.
PopIndex(s) == Len(s)
RemoveAt(s, k) == [j \in 1..(Len(s) - 1) |-> IF j < k THEN s[j] ELSE s[j + 1]]

\* Variant: `callback()` without await.
CbNotAwaited(i) == TRUE

\* Line 72: `await callback()` resumes once the callback has settled.
CbSettled(i) == cur[i] \notin running[i]

\* The error the callback `cur` settled with.
CurError(i) ==
    LET hits == {k \in 1..Len(settled[i]) : settled[i][k].n = cur[i]}
    IN IF hits = {} THEN NoError ELSE settled[i][CHOOSE k \in hits : TRUE].err

\* Variant: `result = await callback()`.
KeepCallbackValue(res, v) == v

\* Line 72: the value of `await callback()` is dropped, `result` is kept.
ResultAfterCallback(res, v) == res

\* Variant: an empty catch block.
DropCallbackError(errs, e) == errs

\* Lines 73-75: the failure of a callback is pushed on `errors`.
ErrorsAfterCallback(errs, e) == IF e = NoError THEN errs ELSE Append(errs, e)

\* Variant: a single error is rethrown as it is.
BareSingleError(errs, res) ==
    IF Len(errs) = 1 THEN Rejected(errs[1])
    ELSE IF Len(errs) > 1
    THEN Rejected(AggregateError(errs, "Errors in defer execution"))
    ELSE Resolved(res)

\* Lines 79-83: the promise withDefer returned settles.
FinalOutcome(errs, res) ==
    IF Len(errs) > 0
    THEN Rejected(AggregateError(errs, "Errors in defer execution"))
    ELSE Resolved(res)

\* Variant: one array at module level, shared by the invocations.
ModuleArray(i) == 1

\* Lines 42, 56: the handle of invocation i pushes on the array that
\* invocation created.
OwnArray(i) == i

(***************************************************************************)
(* Helpers of the model.                                                   *)
(***************************************************************************)

TotalRegs == Len(registered[1]) + Len(registered[2])
LateRegs(i) == Cardinality({k \in 1..Len(registered[i]) : registered[i][k].phase # "work"})
TotalLate == LateRegs(1) + LateRegs(2)
PendingLate(i) ==
    Cardinality({k \in 1..Len(deferred[i]) :
                    registered[i][deferred[i][k].n].phase # "work"})

\* The phase of invocation i a registration falls in.
Phase(i) ==
    IF work[i].how = "running" THEN "work"
    ELSE IF pc[i] = "done" THEN "done"
    ELSE "drain"

\* Invocation 1's work function is suspended on `await withDefer(...)`.
Blocked(i) == i = 1 /\ nested /\ pc[2] # "done"

\* The work function of i can take a step.
FnActive(i) ==
    /\ pc[i] = "fn"
    /\ work[i].how = "running"
    /\ ~Blocked(i)
    /\ thread = (IF IsSync(fnArg[i]) THEN i ELSE 0)

\* The callback with registration number n of i can take a step.
CbActive(i, n) ==
    /\ n \in running[i]
    /\ thread = (IF IsSync(registered[i][n].cb) THEN i ELSE 0)

\* Variant: the callbacks are kept in a set: a call with a callback that is
\* already pending succeeds and pushes nothing.
HandleCallOnce(i, arg, by) ==
    LET e == DeferCheck(arg)
        dup == \E k \in 1..Len(deferred[i]) : deferred[i][k].cb = arg
    IN
    /\ e = NoError => TotalRegs < MaxDefer
    /\ e = NoError /\ Phase(i) # "work" => PendingLate(1) + PendingLate(2) < MaxLate
    /\ IF e = NoError
       THEN /\ deferred' = [deferred EXCEPT ![OwnArray(i)] =
                    IF dup THEN @
                    ELSE Append(@, [cb |-> arg, n |-> Len(registered[i]) + 1])]
            /\ registered' = [registered EXCEPT ![i] =
                    Append(@, [cb |-> arg, phase |-> Phase(i)])]
            /\ UNCHANGED lastDefer
       ELSE /\ lastDefer' = [lastDefer EXCEPT ![i] =
                    [arg |-> arg, threw |-> e, by |-> by,
                     delivery |-> ThrowDelivery(DeferIsAsync)]]
            /\ UNCHANGED << deferred, registered >>

\* Lines 44-57: one call of the handle of invocation i by the caller `by`
\* ("fn": the work function, "other": a callback or other code). A
\* refused call changes nothing but the history variable lastDefer.
HandleCall(i, arg, by) ==
    LET e == DeferCheck(arg) IN
    /\ e = NoError => TotalRegs < MaxDefer
    /\ e = NoError /\ Phase(i) # "work" => PendingLate(1) + PendingLate(2) < MaxLate
    /\ IF e = NoError
       THEN /\ deferred' = [deferred EXCEPT ![OwnArray(i)] =
                    Append(@, [cb |-> arg, n |-> Len(registered[i]) + 1])]
            /\ registered' = [registered EXCEPT ![i] =
                    Append(@, [cb |-> arg, phase |-> Phase(i)])]
            /\ UNCHANGED lastDefer
       ELSE /\ lastDefer' = [lastDefer EXCEPT ![i] =
                    [arg |-> arg, threw |-> e, by |-> by,
                     delivery |-> ThrowDelivery(DeferIsAsync)]]
            /\ UNCHANGED << deferred, registered >>

\* The work function of i ends with the value v / with the error e.
FnEndsOk(i, v) ==
    /\ work' = [work EXCEPT ![i] =
            [how |-> IF IsSync(fnArg[i]) THEN "return" ELSE "resolve",
             val |-> v, err |-> NoError]]
    /\ thread' = 0
FnEndsFail(i, e) ==
    /\ work' = [work EXCEPT ![i] =
            [how |-> IF IsSync(fnArg[i]) THEN "throw" ELSE "reject",
             val |-> "null", err |-> e]]
    /\ thread' = IF IsSync(fnArg[i]) THEN i ELSE 0

\* The callback n of i ends with the error e (NoError: it returns).
CbEnds(i, n, e) ==
    /\ settled' = [settled EXCEPT ![i] = Append(@, [n |-> n, err |-> e])]
    /\ running' = [running EXCEPT ![i] = @ \ {n}]
    /\ thread' = IF IsSync(registered[i][n].cb) /\ e # NoError THEN i ELSE 0

\* The errors the work function of i can throw: its own, or the rejection of
\* the inner invocation it awaited.
Throwable(i) ==
    {MainError} \cup
    (IF i = 1 /\ nested /\ outcome[2].st = "rejected" THEN {outcome[2].err} ELSE {})


(***************************************************************************)
(* The actions.                                                            *)
(***************************************************************************)

\* Lines 35-63: withDefer(arg) is called and runs up to the call of the work
\* function. nest: the caller is the work function of invocation 1, which
\* awaits the promise.
Call(i, arg, nest) ==
    /\ pc[i] = "idle"
    /\ IF nest THEN i = 2 /\ FnActive(1) /\ ~IsSync(fnArg[1]) ELSE thread = 0
    /\ fnArg' = [fnArg EXCEPT ![i] = arg]
    /\ nested' = (nested \/ nest)
    /\ LET e == WithDeferCheck(arg) IN
       IF e # NoError
       THEN /\ delivery' = [delivery EXCEPT ![i] = ThrowDelivery(WithDeferIsAsync)]
            /\ outcome' = [outcome EXCEPT ![i] = Rejected(e)]
            /\ pc' = [pc EXCEPT ![i] = "done"]
            /\ UNCHANGED << allocated, work, thread >>
       ELSE /\ delivery' = [delivery EXCEPT ![i] = "promise"]
            /\ allocated' = allocated \cup {i}
            /\ pc' = [pc EXCEPT ![i] = "fn"]
            /\ IF TypeOf(arg) = "function"
               THEN /\ work' = [work EXCEPT ![i] = Running]
                    /\ thread' = IF IsSync(arg) THEN i ELSE 0
               ELSE /\ work' = [work EXCEPT ![i] =
                            [how |-> "throw", val |-> "null",
                             err |-> TypeError("fn is not a function")]]
                    /\ thread' = i
            /\ UNCHANGED outcome
    /\ UNCHANGED << deferred, errors, result, cur, running, settled,
                    registered, executed, lastDefer >>

\* The work function calls defer(arg). caught: the work function catches the
\* TypeError that defer throws; otherwise the work function fails with it.
FnDefer(i, arg, caught) ==
    /\ FnActive(i)
    /\ HandleCall(i, arg, "fn")
    /\ IF DeferCheck(arg) # NoError /\ ~caught
       THEN FnEndsFail(i, DeferCheck(arg))
       ELSE UNCHANGED << work, thread >>
    /\ UNCHANGED << pc, fnArg, delivery, outcome, allocated, errors, result,
                    cur, running, settled, executed, nested >>

\* The work function returns v (a synchronous one) or resolves to v (an
\* asynchronous one). It does so after any number of registrations: a
\* return at the end of the body and an early return are the same step.
FnReturn(i, v) ==
    /\ FnActive(i)
    /\ FnEndsOk(i, v)
    /\ UNCHANGED << pc, fnArg, delivery, outcome, allocated, deferred, errors,
                    result, cur, running, settled, registered, executed,
                    lastDefer, nested >>

\* The work function throws e (a synchronous one) or rejects with e.
FnThrow(i, e) ==
    /\ FnActive(i)
    /\ e \in Throwable(i)
    /\ FnEndsFail(i, e)
    /\ UNCHANGED << pc, fnArg, delivery, outcome, allocated, deferred, errors,
                    result, cur, running, settled, registered, executed,
                    lastDefer, nested >>

\* Lines 63-68: the await of the work function ends; its value or its
\* failure is recorded and the `finally` block is entered.
ResumeFn(i) ==
    /\ pc[i] = "fn"
    /\ FnSettled(i)
    /\ thread \in {0, i}
    /\ result' = [result EXCEPT ![i] = ResultAfterFn(@, work[i])]
    /\ errors' = [errors EXCEPT ![i] = ErrorsAfterFn(@, work[i])]
    /\ pc' = [pc EXCEPT ![i] = "loop"]
    /\ thread' = i
    /\ UNCHANGED << fnArg, delivery, outcome, allocated, work, deferred, cur,
                    running, settled, registered, executed, lastDefer, nested >>

\* Lines 69-72: one more callback is popped and called.
Invoke(i) ==
    /\ pc[i] = "loop"
    /\ thread = i
    /\ LoopRuns(i)
    /\ LET k == PopIndex(deferred[i])
           e == deferred[i][k]
       IN /\ deferred' = [deferred EXCEPT ![i] = RemoveAt(@, k)]
          /\ cur' = [cur EXCEPT ![i] = e.n]
          /\ executed' = [executed EXCEPT ![i] = Append(@, e.n)]
          /\ IF TypeOf(e.cb) = "function"
             THEN /\ running' = [running EXCEPT ![i] = @ \cup {e.n}]
                  /\ thread' = IF IsSync(e.cb) THEN i ELSE 0
                  /\ UNCHANGED settled
             ELSE /\ settled' = [settled EXCEPT ![i] =
                        Append(@, [n |-> e.n, err |-> TypeError("callback is not a function")])]
                  /\ UNCHANGED << running, thread >>
    /\ pc' = [pc EXCEPT ![i] = "cb"]
    /\ UNCHANGED << fnArg, delivery, outcome, allocated, work, errors, result,
                    registered, lastDefer, nested >>

\* Lines 69, 79-83: the loop ends and the promise of withDefer settles.
Finish(i) ==
    /\ pc[i] = "loop"
    /\ thread = i
    /\ ~LoopRuns(i)
    /\ outcome' = [outcome EXCEPT ![i] = FinalOutcome(errors[i], result[i])]
    /\ pc' = [pc EXCEPT ![i] = "done"]
    /\ thread' = 0
    /\ UNCHANGED << fnArg, delivery, allocated, work, deferred, errors, result,
                    cur, running, settled, registered, executed, lastDefer,
                    nested >>

\* A running callback calls defer(arg) and goes on (the callbacks modelled
\* catch the TypeError of a refused call).
CbDefer(i, n, arg) ==
    /\ CbActive(i, n)
    /\ HandleCall(i, arg, "other")
    /\ UNCHANGED << pc, fnArg, delivery, outcome, allocated, work, errors,
                    result, cur, running, settled, executed, nested, thread >>

\* A running callback returns or throws (a synchronous one), resolves or
\* rejects (an asynchronous one).
CbFinish(i, n) ==
    /\ CbActive(i, n)
    /\ CbEnds(i, n, CallbackError(registered[i][n].cb))
    /\ UNCHANGED << pc, fnArg, delivery, outcome, allocated, work, deferred,
                    errors, result, cur, registered, executed, lastDefer,
                    nested >>

\* Lines 72-76: the await of the callback ends and its failure is recorded.
ResumeCb(i) ==
    /\ pc[i] = "cb"
    /\ CbSettled(i)
    /\ thread \in {0, i}
    /\ errors' = [errors EXCEPT ![i] = ErrorsAfterCallback(@, CurError(i))]
    /\ result' = [result EXCEPT ![i] = ResultAfterCallback(@, CallbackValue(registered[i][cur[i]].cb))]
    /\ pc' = [pc EXCEPT ![i] = "loop"]
    /\ thread' = i
    /\ UNCHANGED << fnArg, delivery, outcome, allocated, work, deferred, cur,
                    running, settled, registered, executed, lastDefer, nested >>

\* A job other than the work function and the callbacks (a task the work
\* function left running, code the handle was handed to) calls defer(arg)
\* once the finally block has been entered; the TypeError, if any, is thrown
\* to that job. Before that, the calls of the handle by any code are the
\* steps FnDefer.
TaskDefer(i, arg) ==
    /\ thread = 0
    /\ i \in allocated
    /\ pc[i] # "fn"
    /\ HandleCall(i, arg, "other")
    /\ UNCHANGED << pc, fnArg, delivery, outcome, allocated, work, errors,
                    result, cur, running, settled, executed, nested, thread >>

\* The steps of invocation i and of the code it calls.
Step(i) ==
    \/ \E arg \in FnArgs : Call(i, arg, FALSE)
    \/ \E arg \in DeferArgs, caught \in BOOLEAN : FnDefer(i, arg, caught)
    \/ \E v \in Values : FnReturn(i, v)
    \/ \E e \in Throwable(i) : FnThrow(i, e)
    \/ ResumeFn(i)
    \/ Invoke(i)
    \/ Finish(i)
    \/ \E n \in 1..MaxDefer, arg \in DeferArgs : CbDefer(i, n, arg)
    \/ \E n \in 1..MaxDefer : CbFinish(i, n)
    \/ ResumeCb(i)
    \/ \E arg \in DeferArgs : TaskDefer(i, arg)

\* One invocation of withDefer, from its call to its outcome and after.
Next == Step(1)

Spec == Init /\ [][Next]_vars

\* The steps of invocation i when two invocations are active at the same
\* time: the handle is called by the work function only, with functions.
StepPair(i) ==
    \/ \E arg \in FnArgs : Call(i, arg, FALSE)
    \/ \E arg \in Callbacks : FnDefer(i, arg, FALSE)
    \/ \E v \in Values : FnReturn(i, v)
    \/ \E e \in Throwable(i) : FnThrow(i, e)
    \/ ResumeFn(i)
    \/ Invoke(i)
    \/ Finish(i)
    \/ \E n \in 1..MaxDefer : CbFinish(i, n)
    \/ ResumeCb(i)

\* Two invocations: siblings started one after the other and interleaved at
\* their awaits, or invocation 2 called and awaited by the work function of
\* invocation 1.
NextPair ==
    \/ \E i \in Invs : StepPair(i)
    \/ \E arg \in FnArgs : Call(2, arg, TRUE)

SpecPair == Init /\ [][NextPair]_vars

\* The history variables are cut down: between two iterations of the loop,
\* the callbacks that were started and have settled are forgotten and the
\* pending ones renumbered. Nothing the program reads changes: `registered`,
\* `executed` and `settled` are histories, and the array keeps its callbacks
\* in their order. It keeps the states finite in number when the callbacks
\* go on registering callbacks.
Forget(i) ==
    /\ pc[i] = "loop"
    /\ executed[i] # << >>
    /\ running[i] = {}
    /\ LET keep == deferred[i] IN
       /\ registered' = [registered EXCEPT ![i] =
               [k \in 1..Len(keep) |-> registered[i][keep[k].n]]]
       /\ deferred' = [deferred EXCEPT ![i] =
               [k \in 1..Len(keep) |-> [cb |-> keep[k].cb, n |-> k]]]
    /\ executed' = [executed EXCEPT ![i] = << >>]
    /\ settled' = [settled EXCEPT ![i] = << >>]
    /\ cur' = [cur EXCEPT ![i] = 0]
    /\ UNCHANGED << pc, fnArg, delivery, outcome, allocated, work, errors,
                    result, running, lastDefer, nested, thread >>

\* The steps that end the work function, run the loop and end a callback.
Progress(i) ==
    \/ \E v \in Values : FnReturn(i, v)
    \/ ResumeFn(i)
    \/ Invoke(i)
    \/ Finish(i)
    \/ \E n \in 1..MaxDefer : CbFinish(i, n)
    \/ ResumeCb(i)

\* One invocation whose callbacks register callbacks that do not fail, any
\* number of times.
NextLive ==
    \/ \E arg \in FnArgs : Call(1, arg, FALSE)
    \/ \E arg \in {"syncFail", "asyncOk"} : FnDefer(1, arg, FALSE)
    \/ \E e \in Throwable(1) : FnThrow(1, e)
    \/ \E n \in 1..MaxDefer : CbDefer(1, n, "syncOk")
    \/ Forget(1)
    \/ Progress(1)

\* The event loop runs every job that is ready, the work function ends and
\* every callback that was called ends.
SpecLive == Init /\ [][NextLive]_vars /\ WF_vars(Progress(1))


(***************************************************************************)
(* Vocabulary of the properties.                                           *)
(***************************************************************************)

\* withDefer went through lines 42-83 and produced its outcome.
Settled(i) == pc[i] = "done" /\ i \in allocated

\* The registrations made before the work function settled. The phases of
\* `registered` never go back, so these are the numbers 1..NumWork(i).
WorkRegs(i) == {n \in 1..Len(registered[i]) : registered[i][n].phase = "work"}
NumWork(i) == Cardinality(WorkRegs(i))

\* The registrations made before withDefer produced its outcome.
LiveRegs(i) == {n \in 1..Len(registered[i]) : registered[i][n].phase # "done"}

\* <<n, n-1, ..., 1>>: the first n registrations in reverse order.
Downto(n) == [k \in 1..n |-> n + 1 - k]

\* How often x occurs in the sequence s.
Times(s, x) == Cardinality({k \in 1..Len(s) : s[k] = x})

\* The callbacks started, restricted to those registered by the work phase.
ExecutedWork(i) ==
    LET InWork(n) == registered[i][n].phase = "work"
    IN SelectSeq(executed[i], InWork)

\* The registration numbers of the callbacks that settled, in that order.
SettledNums(i) == [k \in 1..Len(settled[i]) |-> settled[i][k].n]
SettledWork(i) ==
    LET InWork(n) == registered[i][n].phase = "work"
    IN SelectSeq(SettledNums(i), InWork)

\* The callbacks registered that fail when they are run.
FailingRegs(i) ==
    {n \in LiveRegs(i) : CallbackError(registered[i][n].cb) # NoError}

\* The failures of the callbacks started, in the order they were started.
ExpectedFailures(i) ==
    LET Fails(n) == CallbackError(registered[i][n].cb) # NoError
        f == SelectSeq(executed[i], Fails)
    IN [k \in 1..Len(f) |-> CallbackError(registered[i][f[k]].cb)]

AggregateOf(errs) == Rejected(AggregateError(errs, "Errors in defer execution"))


(***************************************************************************)
(* The properties.                                                         *)
(***************************************************************************)

\* C1: when neither the work function nor any registered callback fails, the
\* callbacks the work phase registered (none included) are called in exactly
\* the reverse of their registration order, and withDefer resolves to exactly
\* the value the work function returned.
C1_LifoAndResult ==
    \A i \in Invs :
        Settled(i) /\ ~WorkFailed(work[i]) /\ FailingRegs(i) = {} =>
            /\ ExecutedWork(i) = Downto(NumWork(i))
            /\ LateRegs(i) = 0 => executed[i] = Downto(Len(registered[i]))
            /\ outcome[i] = Resolved(work[i].val)
            /\ work[i].val \in Values

C1_Witness ==
    /\ Settled(1)
    /\ NumWork(1) = 3
    /\ registered[1][1].cb = "asyncOk" /\ registered[1][3].cb = "syncOk"
    /\ executed[1] = << 3, 2, 1 >>
    /\ outcome[1] = Resolved("success")

\* C2: when the work function fails after registering M callbacks, every one
\* of them is called exactly once, and withDefer rejects with an aggregate
\* that holds the failure of the work function first and then the failures of
\* the failing callbacks in the order they ran, the reverse of registration:
\* 1 + (number of failing callbacks) entries.
C2_WorkFailureAggregate ==
    \A i \in Invs :
        Settled(i) /\ WorkFailed(work[i]) =>
            /\ \A n \in WorkRegs(i) : Times(executed[i], n) = 1
            /\ ExecutedWork(i) = Downto(NumWork(i))
            /\ outcome[i] = AggregateOf(<< work[i].err >> \o ExpectedFailures(i))
            /\ LateRegs(i) = 0 =>
                  Len(outcome[i].err.errors) = 1 + Cardinality(FailingRegs(i))

C2_Witness ==
    /\ Settled(1)
    /\ work[1].how = "reject"
    /\ NumWork(1) = 3 /\ LateRegs(1) = 0
    /\ registered[1][1].cb = "syncFail"
    /\ registered[1][2].cb = "asyncOk"
    /\ registered[1][3].cb = "asyncFail"
    /\ outcome[1].err.errors = << MainError, Error("asyncFail"), Error("syncFail") >>

\* C3: when the work function succeeds and some callbacks fail, every
\* registered callback is still called, and withDefer rejects with an
\* aggregate that holds exactly the failures of the failing callbacks, in the
\* order the callbacks ran.
C3_CleanupFailuresDoNotStopDrain ==
    \A i \in Invs :
        Settled(i) /\ ~WorkFailed(work[i]) /\ FailingRegs(i) # {} =>
            /\ \A n \in LiveRegs(i) : Times(executed[i], n) = 1
            /\ Len(settled[i]) = Cardinality(LiveRegs(i))
            /\ ExecutedWork(i) = Downto(NumWork(i))
            /\ outcome[i] = AggregateOf(ExpectedFailures(i))
            /\ Len(outcome[i].err.errors) = Cardinality(FailingRegs(i))

C3_Witness ==
    /\ Settled(1)
    /\ work[1].how = "return"
    /\ NumWork(1) = 3
    /\ registered[1][1].cb = "syncOk"
    /\ registered[1][2].cb = "asyncFail"
    /\ registered[1][3].cb = "syncFail"
    /\ executed[1] = << 3, 2, 1 >>
    /\ outcome[1].err.errors = << Error("syncFail"), Error("asyncFail") >>

\* C4: once the loop has ended the outcome is decided by `errors` alone:
\* withDefer resolves, with the result of the work function, exactly when no
\* failure was recorded; otherwise it rejects with one AggregateError holding
\* all recorded failures in the order they were recorded, also when there is
\* exactly one.
C4_OutcomeFromErrors ==
    \A i \in Invs :
        Settled(i) =>
            /\ outcome[i].st \in {"resolved", "rejected"}
            /\ outcome[i].st = "resolved" <=> errors[i] = << >>
            /\ errors[i] = << >> <=> (~WorkFailed(work[i]) /\ FailingRegs(i) = {})
            /\ outcome[i].st = "resolved" => outcome[i].val = work[i].val
            /\ outcome[i].st = "rejected" =>
                  /\ outcome[i].err.kind = "AggregateError"
                  /\ outcome[i].err.errors = errors[i]

C4_Witness ==
    /\ Settled(1)
    /\ Len(registered[1]) = 2
    /\ errors[1] = << Error("asyncFail") >>
    /\ outcome[1].err.kind = "AggregateError"
    /\ outcome[1].err.errors = << Error("asyncFail") >>

\* C5: the callbacks run strictly one after another: at most one callback of
\* an invocation is started and not yet settled, the callbacks settle in the
\* order they were started, and for the callbacks of the work phase that is
\* the reverse of the registration order, synchronous or not.
C5_OneCallbackInFlight ==
    \A i \in Invs :
        /\ Cardinality(running[i]) <= 1
        /\ running[i] \subseteq {cur[i]}
        /\ Len(executed[i]) = Len(settled[i]) + Cardinality(running[i])
        /\ SettledNums(i) = SubSeq(executed[i], 1, Len(settled[i]))
        /\ Settled(i) => SettledWork(i) = Downto(NumWork(i))

C5_Witness ==
    /\ pc[1] = "cb"
    /\ NumWork(1) = 3
    /\ registered[1][1].cb = "asyncOk"
    /\ registered[1][2].cb = "asyncFail"
    /\ registered[1][3].cb = "syncOk"
    /\ SettledNums(1) = << 3 >>
    /\ running[1] = {2}
    /\ Len(deferred[1]) = 1


\* C6: however the work function ends (it returns, early or not, it resolves,
\* it throws, it rejects), every callback registered before it ended has been
\* called exactly once, and has settled, when withDefer settles; no callback
\* is ever called twice.
C6_CleanupOnEveryExit ==
    \A i \in Invs :
        /\ \A n \in 1..Len(registered[i]) : Times(executed[i], n) <= 1
        /\ Settled(i) =>
              /\ work[i].how \in {"return", "resolve", "throw", "reject"}
              /\ \A n \in WorkRegs(i) :
                    Times(executed[i], n) = 1 /\ Times(SettledNums(i), n) = 1

C6_Witness ==
    /\ Settled(1)
    /\ work[1].how = "throw"
    /\ NumWork(1) = 2
    /\ executed[1] = << 2, 1 >>
    /\ SettledNums(1) = << 2, 1 >>

\* C7: withDefer called with a value that is not a function fails with the
\* TypeError 'withDefer() expects a function' itself, not wrapped in an
\* AggregateError, and before any work: no `deferred` array is created, the
\* argument is not called and no callback is registered or run.
C7_NonCallableWorkFn ==
    \A i \in Invs :
        pc[i] # "idle" /\ TypeOf(fnArg[i]) # "function" =>
            /\ pc[i] = "done"
            /\ outcome[i] = Rejected(TypeError("withDefer() expects a function"))
            /\ outcome[i].err.kind # "AggregateError"
            /\ i \notin allocated
            /\ work[i] = NotStarted
            /\ deferred[i] = << >> /\ errors[i] = << >>
            /\ registered[i] = << >> /\ executed[i] = << >>

C7_Witness ==
    /\ pc[1] = "done"
    /\ fnArg[1] = "string"
    /\ outcome[1].err.kind = "TypeError"

\* C8, as stated: a refused argument is raised synchronously, as a failure of
\* the call itself, by withDefer as well as by defer.
C8_RaisedSynchronously ==
    \A i \in Invs :
        /\ pc[i] # "idle" /\ TypeOf(fnArg[i]) # "function" => delivery[i] = "throw"
        /\ lastDefer[i] # NoCall => lastDefer[i].delivery = "throw"

\* C8, amended: defer throws the TypeError out of the call; withDefer, an
\* async function, returns a promise and the TypeError is the rejection of
\* that promise.
C8_DeferThrowsWithDeferRejects ==
    \A i \in Invs :
        /\ lastDefer[i] # NoCall =>
              /\ lastDefer[i].delivery = "throw"
              /\ lastDefer[i].threw.kind = "TypeError"
        /\ pc[i] # "idle" /\ TypeOf(fnArg[i]) # "function" =>
              /\ delivery[i] = "promise"
              /\ outcome[i].st = "rejected"
              /\ outcome[i].err.kind = "TypeError"
        /\ delivery[i] # "throw"

C8_Witness ==
    /\ lastDefer[1].arg = "promise"
    /\ lastDefer[1].delivery = "throw"
    /\ work[1].how = "throw"
    /\ work[1].err = lastDefer[1].threw

\* C9: a call of the handle with a value that is not a function throws the
\* TypeError 'defer() expects a function' out of the call and leaves
\* `deferred` as it was; nothing but functions is ever registered, pending
\* or run.
C9_NonCallableRefused ==
    [][\A i \in Invs :
          /\ lastDefer'[i] # lastDefer[i] /\ TypeOf(lastDefer'[i].arg) # "function" =>
                /\ lastDefer'[i].threw = TypeError("defer() expects a function")
                /\ lastDefer'[i].delivery = "throw"
                /\ deferred'[i] = deferred[i]
                /\ registered'[i] = registered[i]
                /\ executed'[i] = executed[i]
          /\ \A k \in 1..Len(registered'[i]) :
                TypeOf(registered'[i][k].cb) = "function"
          /\ \A k \in 1..Len(deferred'[i]) :
                TypeOf(deferred'[i][k].cb) = "function"]_vars

C9_Witness ==
    /\ lastDefer[1].arg = "string"
    /\ lastDefer[1].threw = TypeError("defer() expects a function")
    /\ work[1].how = "running"
    /\ Len(deferred[1]) = 2
    /\ Len(registered[1]) = 2

\* C10: a call of the handle with a pending Promise fails with the message
\* that names the Promise and suggests wrapping the call in a function.
C10_PromiseMessage ==
    \A i \in Invs :
        lastDefer[i].arg = "promise" =>
            lastDefer[i].threw =
                TypeError("defer() expects a function, not a Promise. Use defer(() => yourAsyncFunction()) instead")


C12_RefusedCallAlwaysRecorded ==
    \A i \in Invs :
        Settled(i) /\ lastDefer[i].by = "fn" =>
            /\ \A n \in WorkRegs(i) : Times(executed[i], n) = 1
            /\ Len(errors[i]) > 0
            /\ errors[i][1] = lastDefer[i].threw
            /\ outcome[i].st = "rejected"
            /\ outcome[i].err.errors[1] = lastDefer[i].threw

\* C12, amended: when the work function lets the TypeError of a refused call
\* propagate, the TypeError is the failure of the work function: it is the
\* first entry of `errors` and of the aggregate. When the work function
\* catches it, no TypeError is recorded. In both cases the callbacks
\* registered by the work function are run.
C12_RefusedCallRecordedUnlessCaught ==
    \A i \in Invs :
        Settled(i) /\ lastDefer[i].by = "fn" =>
            /\ \A n \in WorkRegs(i) :
                  Times(executed[i], n) = 1 /\ Times(SettledNums(i), n) = 1
            /\ work[i].err.kind = "TypeError" =>
                  /\ work[i].err = lastDefer[i].threw
                  /\ errors[i][1] = lastDefer[i].threw
                  /\ outcome[i].st = "rejected"
                  /\ outcome[i].err.errors[1] = lastDefer[i].threw
            /\ work[i].err.kind # "TypeError" =>
                  \A k \in 1..Len(errors[i]) : errors[i][k].kind # "TypeError"

C12_Witness ==
    /\ Settled(1)
    /\ lastDefer[1].by = "fn" /\ lastDefer[1].arg = "string"
    /\ work[1].how = "throw"
    /\ NumWork(1) = 2
    /\ executed[1] = << 2, 1 >>
    /\ registered[1][2].cb = "asyncFail"
    /\ outcome[1].err.errors = << TypeError("defer() expects a function"), Error("asyncFail") >>


\* The registrations made while the drain was in progress.
DrainRegs(i) == {n \in 1..Len(registered[i]) : registered[i][n].phase = "drain"}

\* The work function of i has returned, thrown, resolved or rejected.
WorkOver(i) == work[i].how \in {"return", "throw", "resolve", "reject"}

\* C14, as stated: no append through the handle occurs after the drain has
\* started: every registration is made while the work function is executing.
C14_NoAppendAfterDrainStarted ==
    \A i \in Invs :
        \A n \in 1..Len(registered[i]) : registered[i][n].phase = "work"

\* C14, amended: the array changes in two ways only. It loses its last
\* element, and does so only in the loop of the finally block, after the
\* work function has settled; it gains a last element, a function, by an
\* accepted call of the handle, whatever the phase of the invocation is.
C14_PopsInDrainAppendsAnywhere ==
    [][\A i \in Invs :
          \/ deferred'[i] = deferred[i]
          \/ /\ Len(deferred[i]) > 0
             /\ deferred'[i] = SubSeq(deferred[i], 1, Len(deferred[i]) - 1)
             /\ pc[i] = "loop" /\ pc'[i] = "cb"
             /\ WorkOver(i)
          \/ /\ Len(deferred'[i]) = Len(deferred[i]) + 1
             /\ SubSeq(deferred'[i], 1, Len(deferred[i])) = deferred[i]
             /\ TypeOf(deferred'[i][Len(deferred'[i])].cb) = "function"
             /\ i \in allocated
             /\ pc'[i] = pc[i]
      ]_vars

C14_Witness ==
    /\ Settled(1)
    /\ Len(registered[1]) = 3
    /\ DrainRegs(1) = {3}
    /\ executed[1] = << 2, 3, 1 >>
    /\ deferred[1] = << >>
    /\ outcome[1] = Resolved("success")

\* C16: no callback of an invocation is started before its work function has
\* settled: whenever the loop has been entered, a callback has been started
\* or the outcome produced, the work function has returned or thrown, and
\* one that returned a promise has seen it resolve or reject.
C16_NoCleanupBeforeWorkSettles ==
    \A i \in Invs :
        /\ (pc[i] \in {"loop", "cb"} \/ Settled(i)) => WorkOver(i)
        /\ (executed[i] # << >> \/ running[i] # {} \/ settled[i] # << >>) => WorkOver(i)
        /\ work[i].how = "running" =>
              /\ pc[i] = "fn"
              /\ Len(deferred[i]) = Len(registered[i])
              /\ errors[i] = << >>
        /\ WorkOver(i) /\ ~IsSync(fnArg[i]) /\ TypeOf(fnArg[i]) = "function" =>
              work[i].how \in {"resolve", "reject"}

C16_Witness ==
    /\ fnArg[1] = "asyncFn"
    /\ work[1].how = "resolve"
    /\ Len(registered[1]) = 2
    /\ pc[1] = "cb"
    /\ executed[1] = << 2 >>
    /\ running[1] = {2}

C20_RegistrationAfterOutcome ==
    [][\A i \in Invs :
          /\ Settled(i) =>
                /\ outcome'[i] = outcome[i]
                /\ errors'[i] = errors[i] /\ result'[i] = result[i]
                /\ executed'[i] = executed[i] /\ running'[i] = running[i]
                /\ pc'[i] = pc[i]
                /\ registered'[i] # registered[i] =>
                      /\ registered'[i][Len(registered'[i])].phase = "done"
                      /\ Len(deferred'[i]) = Len(deferred[i]) + 1
                      /\ lastDefer'[i] = lastDefer[i]
                /\ lastDefer'[i] # lastDefer[i] =>
                      TypeOf(lastDefer'[i].arg) # "function"
          /\ \A n \in 1..Len(registered'[i]) :
                registered'[i][n].phase = "done" =>
                      /\ Times(executed'[i], n) = 0
                      /\ \E k \in 1..Len(deferred'[i]) : deferred'[i][k].n = n
      ]_vars

C20_Witness ==
    /\ Settled(1)
    /\ outcome[1] = Resolved("success")
    /\ Len(registered[1]) = 2
    /\ registered[1][2] = [cb |-> "asyncFail", phase |-> "done"]
    /\ executed[1] = << 1 >>
    /\ Len(deferred[1]) = 1 /\ deferred[1][1].n = 2
    /\ lastDefer[1] = NoCall


\* Every callback registered through the handle of i was started once and
\* has settled; nothing is pending or running.
AllRun(i) ==
    /\ deferred[i] = << >>
    /\ running[i] = {}
    /\ \A n \in 1..Len(registered[i]) :
          Times(executed[i], n) = 1 /\ Times(SettledNums(i), n) = 1

\* C13: when the work function of invocation 1 awaits invocation 2, control
\* is back in the work function of 1 (it runs on or has ended) only after
\* every callback of 2 was run and has settled, and no callback of 1 is
\* started before that.
C13_InnerTeardownFirst ==
    nested =>
        /\ pc[2] # "done" =>
              /\ work[1].how = "running" /\ pc[1] = "fn"
              /\ executed[1] = << >> /\ running[1] = {}
              /\ ~FnActive(1)
        /\ (FnActive(1) \/ WorkOver(1) \/ executed[1] # << >>) =>
              /\ pc[2] = "done"
              /\ 2 \in allocated => AllRun(2)
        /\ outcome[2].st # "pending" /\ 2 \in allocated => AllRun(2)

C13_Witness ==
    /\ nested
    /\ Settled(2) /\ executed[2] = << 2, 1 >>
    /\ registered[2][1].cb = "asyncFail"
    /\ Len(settled[2]) = 2
    /\ pc[1] = "cb" /\ executed[1] = << 1 >>
    /\ work[1].err = outcome[2].err

\* The outcome the invocation i has to produce, from the failure of its own
\* work function and the failures of the callbacks registered through its
\* own handle.
OwnOutcome(i) ==
    LET errs == (IF WorkFailed(work[i]) THEN << work[i].err >> ELSE << >>)
                \o [n \in 1..Len(registered[i]) |->
                       CallbackError(registered[i][Len(registered[i]) + 1 - n].cb)]
        fails == SelectSeq(errs, LAMBDA e : e # NoError)
    IN IF fails = << >> THEN Resolved(work[i].val) ELSE AggregateOf(fails)

\* C15: two invocations active at the same time do not interact. The array
\* of each holds the callbacks registered through its own handle and not
\* yet started, each runs its own callbacks only, in the reverse of its own
\* registration order, and the outcome of each is made of the failures of
\* its own work function and of its own callbacks.
C15_InvocationsIsolated ==
    \A i \in Invs :
        /\ \A k \in 1..Len(deferred[i]) :
              /\ deferred[i][k].n = k
              /\ k <= Len(registered[i])
              /\ registered[i][k].cb = deferred[i][k].cb
        /\ Len(deferred[i]) + Len(executed[i]) = Len(registered[i])
        /\ \A k \in 1..Len(executed[i]) :
              executed[i][k] = Len(registered[i]) + 1 - k
        /\ \A k \in 1..Len(settled[i]) :
              /\ settled[i][k].n = executed[i][k]
              /\ settled[i][k].err = CallbackError(registered[i][executed[i][k]].cb)
        /\ Settled(i) => outcome[i] = OwnOutcome(i)

C15_Witness ==
    /\ ~nested
    /\ pc[1] = "cb" /\ running[1] = {1}
    /\ pc[2] = "cb" /\ running[2] = {1}
    /\ executed[1] = << 2, 1 >> /\ errors[1] = << Error("syncFail") >>
    /\ executed[2] = << 1 >> /\ errors[2] = << MainError >>
    /\ registered[2][1].cb = "asyncFail"

\* C18: two invocations whose work functions ended the same way and whose
\* callbacks fail alike, one for one, produce the same outcome, whatever the
\* values their callbacks return.
C18_CallbackValuesDiscarded ==
    /\ Settled(1) /\ Settled(2)
    /\ work[1] = work[2]
    /\ Len(registered[1]) = Len(registered[2])
    /\ \A n \in 1..Len(registered[1]) :
          CallbackError(registered[1][n].cb) = CallbackError(registered[2][n].cb)
    => /\ outcome[1] = outcome[2]
       /\ result[1] = result[2]

C18_Witness ==
    /\ Settled(1) /\ Settled(2)
    /\ work[1] = work[2] /\ work[1].how = "resolve"
    /\ Len(registered[1]) = 1 /\ Len(registered[2]) = 1
    /\ registered[1][1].cb = "syncOk" /\ registered[2][1].cb = "asyncOk"
    /\ CallbackValue(registered[1][1].cb) # CallbackValue(registered[2][1].cb)
    /\ executed[1] = << 1 >> /\ executed[2] = << 1 >>
    /\ outcome[1] = Resolved("success")


\* The finally block of invocation 1 has been entered and the outcome is not
\* produced yet.
Draining == pc[1] \in {"loop", "cb"}

\* withDefer has produced its outcome after every callback in the array was
\* run to its end.
Drained == Settled(1) /\ deferred[1] = << >> /\ running[1] = {}

\* A call of the handle that adds a callback to the array.
Registers == Len(deferred'[1]) > Len(deferred[1])

\* C17, as stated: once the drain has started, if every callback that is
\* called ends, every callback in the array is run to its end and withDefer
\* produces its outcome.
C17_DrainTerminates == Draining ~> Drained

\* C17, amended: once the drain has started, if every callback that is
\* called ends and the callbacks stop registering callbacks at some time,
\* every callback in the array is run to its end, the failing ones
\* included, and withDefer produces its outcome.
C17_DrainTerminatesUnlessFed ==
    ([]<><<Registers>>_vars) \/ (Draining ~> Drained)

C17_Witness ==
    /\ Drained
    /\ Len(registered[1]) = 3 /\ registered[1][3].phase = "drain"
    /\ registered[1][2].cb = "syncFail"
    /\ executed[1] = << 2, 3, 1 >>
    /\ Len(settled[1]) = 3
    /\ outcome[1] = AggregateOf(<< Error("syncFail") >>)


\* C21: in the step in which withDefer produces its outcome, the array is
\* empty, no callback is running, and the callbacks started so far, all of
\* them settled, are as many as the calls of the handle accepted so far.
C21_EmptyAtOutcome ==
    [][\A i \in Invs :
          outcome[i].st = "pending" /\ outcome'[i].st # "pending" =>
              /\ deferred[i] = << >> /\ deferred'[i] = << >>
              /\ running'[i] = {}
              /\ Len(executed'[i]) = Len(registered'[i])
              /\ Len(settled'[i]) = Len(registered'[i])
              /\ \A n \in 1..Len(registered'[i]) : Times(executed'[i], n) = 1
      ]_vars

C21_Witness ==
    /\ Settled(1)
    /\ outcome[1].st = "rejected"
    /\ DrainRegs(1) = {2, 3}
    /\ executed[1] = << 1, 2, 3 >>
    /\ Len(settled[1]) = 3
    /\ deferred[1] = << >>

\* The registrations of the callback c made before the outcome, and the
\* number of times c was started.
RegsOf(i, c) == {n \in LiveRegs(i) : registered[i][n].cb = c}
StartsOf(i, c) ==
    Cardinality({k \in 1..Len(executed[i]) : registered[i][executed[i][k]].cb = c})

\* C22: registrations are not de-duplicated. A callback registered k times
\* is started k times, once for each of its registrations and at the place
\* of each in the reverse order, and when it fails, the aggregate holds k
\* entries of its failure.
C22_NoDeduplication ==
    \A i \in Invs :
        Settled(i) =>
            /\ ExecutedWork(i) = Downto(NumWork(i))
            /\ \A c \in Callbacks :
                  /\ StartsOf(i, c) = Cardinality(RegsOf(i, c))
                  /\ \A n \in RegsOf(i, c) : Times(executed[i], n) = 1
                  /\ CallbackError(c) # NoError =>
                        /\ Times(errors[i], CallbackError(c)) = Cardinality(RegsOf(i, c))
                        /\ RegsOf(i, c) # {} =>
                              Times(outcome[i].err.errors, CallbackError(c))
                                  = Cardinality(RegsOf(i, c))

C22_Witness ==
    /\ Settled(1)
    /\ Len(registered[1]) = 3
    /\ registered[1][1].cb = "asyncFail"
    /\ registered[1][2].cb = "syncOk"
    /\ registered[1][3].cb = "asyncFail"
    /\ NumWork(1) = 3
    /\ executed[1] = << 3, 2, 1 >>
    /\ outcome[1] = AggregateOf(<< Error("asyncFail"), Error("asyncFail") >>)

====
